---- MODULE Spec2Model ----
(***************************************************************************)
(* Model of the remote-shell session actor ("Shell") of                    *)
(* src-tauri/src/session_manager/shell.rs: the control calls write,        *)
(* resize and close, the protocol loop run() with its select over the      *)
(* outbound queue and the remote channel, and the string form of           *)
(* ShellToken (Serialize / ShellTokenVisitor::visit_str).                  *)
(***************************************************************************)
EXTENDS Integers, Sequences, FiniteSets, TLC

VARIABLES
    channel,     \* Shell.channel: Option<Channel>, "Some" or "None"
    chanLock,    \* the tokio Mutex around channel: holder, then waiters
    sender,      \* Shell.sender: Option<UnboundedSender>, "Some" or "None"
    receiver,    \* run()'s receiver: "none" (not created), "open", "dropped"
    queue,       \* chunks in the unbounded channel, oldest first
    parser,      \* Shell.parser: the terminal emulator
    has_pty,     \* Shell.has_pty
    loopPc,      \* run(): "idle" (not entered), "select", "recvd", "send",
                 \*        "handle", "cb", "closed", "closing", "done"
    loopCbs,     \* run(): the callbacks the arm being run has yet to make
    loopChunk,   \* run(): the chunk taken from the queue, being sent
    loopResult,  \* run(): "none", "Ok", "Disconnected", "TransportError"
    status,      \* run(): status: Option<u32> as <<>> or <<code>>
    eof,         \* run(): eof
    pc,          \* per task: "idle", "resize_lock", "resize_set", "close_lock"
    arg,         \* per task: <<cols, rows, call number>> of its resize()
    result,      \* the control call that returned last: [op, res]
    nCalls,      \* control calls made so far
    nMsgs,       \* inbound events delivered so far
    received,    \* remote side: which of "Eof", "ExitStatus" it has delivered
    lastMsg,     \* remote side: the ChannelMsg it delivered last
    sent,        \* remote side: chunks received through ch.data, in order
    accepted,    \* chunks write() has put on the queue, in order
    wcLog,       \* remote side: window-change requests received
    closeCount,  \* remote side: number of ch.close() requests received
    closeCalls,  \* callers: number of close() calls that have returned
    cbOut,       \* sink: the callbacks made for the last inbound message
    shot,        \* the ShellBuffer the last screen() returned
    tokPhase,    \* token: "off", "token", "string", "encoded", "roundtrip",
                 \*        "decoded"
    tokVal,      \* token: the ShellToken to serialize
    tokStr,      \* token: the string form, to deserialize
    tokRes       \* token: the outcome of visit_str, [kind, token]

shellVars == <<channel, chanLock, sender, receiver, queue, parser, has_pty,
               loopPc, loopChunk, loopResult, status, eof, pc, arg, result,
               nCalls, nMsgs, received, lastMsg, sent, accepted, wcLog,
               closeCount, closeCalls, cbOut, shot, loopCbs>>
tokVars == <<tokPhase, tokVal, tokStr, tokRes>>
vars == <<shellVars, tokVars>>

-----------------------------------------------------------------------------
(* Bounds of the exploration.                                              *)

MaxCalls == 2
MaxMsgs == 2

Tasks == {"t1", "t2"}
Loop == "loop"

(* Byte strings used as inputs: chunks for write(), payloads from the      *)
(* remote side (an OSC 0 title sequence ESC ] 0 ; h BEL, an OSC 2 sequence *)
(* with an empty title, an OSC 1 icon-name sequence ESC ] 1 ; x BEL, a     *)
(* printable byte), and sizes as <<cols, rows>>.                           *)
Chunks == {<<1>>, <<2>>}
TitleH == <<27, 93, 48, 59, 104, 7>>
TitleEmpty == <<27, 93, 50, 59, 7>>
IconX == <<27, 93, 49, 59, 120, 7>>
PlainA == <<97>>
Payloads == {TitleH, TitleEmpty, IconX, PlainA}
Sizes == {<<100, 30>>}
InitSize == <<80, 24>>
DefTitle == <<115, 104>>

NoMsg == [type |-> "none", data |-> <<>>, ext |-> 0]

Msgs ==
    [type : {"Data"}, data : Payloads, ext : {0}]
    \cup [type : {"ExtendedData"}, data : {TitleH, PlainA}, ext : {1, 2}]
    \cup [type : {"ExitStatus", "Eof", "Close", "Other"}, data : {<<>>},
          ext : {0}]

-----------------------------------------------------------------------------
(* The terminal emulator (vt100::Parser) as the actor uses it: process,    *)
(* title, title_diff, set_size.                                            *)

Min(a, b) == IF a < b THEN a ELSE b

(* vt100 Parser::new(rows, cols, 0): every row empty, cursor at (0, 0).    *)
(* A row is the sequence of its cells up to the last one written, 0 being  *)
(* a cell that holds nothing; cur is <<row, col>>, counted from 0.         *)
NewParser(rows, cols) ==
    [rows |-> rows, cols |-> cols, title |-> <<>>, icon |-> <<>>,
     pst |-> "ground", buf |-> <<>>, grid |-> [i \in 1..rows |-> <<>>], cur |-> <<0, 0>>]

(* Line feed: the cursor goes one row down; on the last row the grid       *)
(* scrolls up by one row instead.                                          *)
LineFeed(p) ==
    IF p.cur[1] + 1 >= p.rows
    THEN [p EXCEPT !.grid = Tail(p.grid) \o << <<>> >>]
    ELSE [p EXCEPT !.cur = <<p.cur[1] + 1, p.cur[2]>>]

(* A printable byte: written into the cell under the cursor, which moves   *)
(* one column right; a cursor past the last column wraps first.            *)
PutChar(p, b) ==
    LET q == IF p.cur[2] >= p.cols
             THEN LineFeed([p EXCEPT !.cur = <<p.cur[1], 0>>])
             ELSE p
        r == q.cur[1] + 1
        c == q.cur[2]
        row == q.grid[r]
        padded == row \o [i \in 1..(c + 1 - Len(row)) |-> 0]
    IN  [q EXCEPT !.grid = [q.grid EXCEPT ![r] = [padded EXCEPT ![c + 1] = b]],
                  !.cur = <<q.cur[1], c + 1>>]

(* The end of an OSC string: "0;text" sets the icon name and the title,   *)
(* "1;text" the icon name, "2;text" the title.                             *)
OscDispatch(p) ==
    IF Len(p.buf) >= 2 /\ p.buf[1] \in {48, 49, 50} /\ p.buf[2] = 59
    THEN LET text == SubSeq(p.buf, 3, Len(p.buf))
         IN  [p EXCEPT !.title = IF p.buf[1] \in {48, 50} THEN text ELSE @,
                       !.icon = IF p.buf[1] \in {48, 49} THEN text ELSE @,
                       !.buf = <<>>]
    ELSE [p EXCEPT !.buf = <<>>]

(* One byte through the escape-sequence state machine: ESC ] opens an OSC  *)
(* string, BEL or another ESC ends it.                                     *)
FeedByte(p, b) ==
    CASE p.pst = "ground" ->
            CASE b = 27 -> [p EXCEPT !.pst = "esc"]
              [] b = 13 -> [p EXCEPT !.cur = <<p.cur[1], 0>>]
              [] b = 10 -> LineFeed(p)
              [] b \in 32..126 -> PutChar(p, b)
              [] OTHER -> p
      [] p.pst = "esc" ->
            IF b = 93 THEN [p EXCEPT !.pst = "osc", !.buf = <<>>]
                      ELSE [p EXCEPT !.pst = "ground"]
      [] OTHER ->
            CASE b = 7 -> [OscDispatch(p) EXCEPT !.pst = "ground"]
              [] b = 27 -> [OscDispatch(p) EXCEPT !.pst = "esc"]
              [] OTHER -> [p EXCEPT !.buf = Append(p.buf, b)]

RECURSIVE ParserProcess(_, _)
ParserProcess(p, data) ==
    IF data = <<>> THEN p
    ELSE ParserProcess(FeedByte(p, Head(data)), Tail(data))

(* A diff that looks at the title alone. *)
TitleDiffTitleOnly(new, old) == new.title = old.title

(* Screen::title_diff(&old).is_empty(): the diff writes the icon name and  *)
(* the title when either differs from the old screen's.                    *)
TitleDiffIsEmpty(new, old) ==
    new.icon = old.icon /\ new.title = old.title

(* A set_size that starts the emulator afresh at the new size. *)
SetSizeResets(p, rows, cols) == NewParser(rows, cols)

(* vt100 Parser::set_size: every row is cut to the new width, rows are    *)
(* dropped from or added at the bottom, the cursor is kept inside.         *)
SetSize(p, rows, cols) ==
    LET cut == [i \in 1..p.rows |->
                   SubSeq(p.grid[i], 1, Min(Len(p.grid[i]), cols))]
    IN  [p EXCEPT !.rows = rows,
                  !.cols = cols,
                  !.grid = [i \in 1..rows |-> IF i <= p.rows THEN cut[i] ELSE <<>>],
                  !.cur = <<Min(p.cur[1], rows - 1), Min(p.cur[2], cols - 1)>>]

(* Shell::process: [parser |-> the emulator afterwards, changed |-> bool]. *)
process(p, pty, data) ==
    IF ~pty
    THEN [parser |-> p, changed |-> FALSE]
    ELSE LET q == ParserProcess(p, data)
         IN  [parser |-> q, changed |-> ~TitleDiffIsEmpty(q, p)]

RECURSIVE Decimal(_)
Decimal(n) == IF n < 10 THEN <<48 + n>> ELSE Decimal(n \div 10) \o <<48 + (n % 10)>>

(* Moving the cursor k columns right: CSI C, or CSI k C. *)
MoveRight(k) == IF k = 1 THEN <<27, 91, 67>> ELSE <<27, 91>> \o Decimal(k) \o <<67>>

(* One row as Screen::rows_formatted writes it: the cells of the first     *)
(* `width` columns that hold something, a run of empty cells before one of *)
(* them as a cursor move, nothing for the empty cells at the end.          *)
RECURSIVE RowFormatted(_, _, _)
RowFormatted(cells, i, gap) ==
    IF i > Len(cells) THEN <<>>
    ELSE IF cells[i] = 0 THEN RowFormatted(cells, i + 1, gap + 1)
    ELSE (IF gap > 0 THEN MoveRight(gap) ELSE <<>>) \o <<cells[i]>> \o
         RowFormatted(cells, i + 1, 0)

(* Screen::rows_formatted(0, width), collected *)
rows_formatted(p, width) ==
    [i \in 1..p.rows |->
        RowFormatted(SubSeq(p.grid[i], 1, Min(Len(p.grid[i]), width)), 1, 0)]

(* rows.iter().rposition(|row| !row.is_empty()): the index, counted from   *)
(* 1, of the last row that is not empty; 0 for None.                       *)
RPosition(rs) ==
    LET S == {i \in 1..Len(rs) : rs[i] # <<>>}
    IN  IF S = {} THEN 0 ELSE CHOOSE i \in S : \A j \in S : j <= i

(* The trimming that cuts after the first row that is not empty. *)
TrimAtFirst(rs) ==
    LET S == {i \in 1..Len(rs) : rs[i] # <<>>}
    IN  IF S = {} THEN <<>>
        ELSE SubSeq(rs, 1, CHOOSE i \in S : \A j \in S : i <= j)

(* Shell::screen, the rows kept: &rows[0..idx + 1], or Vec::new() *)
Trim(rs) ==
    LET idx == RPosition(rs)
    IN  IF idx > 0 THEN SubSeq(rs, 1, idx) ELSE <<>>

(* ShellBuffer { rows, cursor } *)
ShellBuffer(p, width) ==
    [rows |-> Trim(rows_formatted(p, width)), cursor |-> p.cur]

NoShot == [rows |-> <<>>, cursor |-> <<0, 0>>]

(* Shell::title *)
title(p) == IF p.title = <<>> THEN DefTitle ELSE p.title

(* Shell::info, as the notification sink sees it: the title. *)
info(p) == [cb |-> "info", stream |-> 0, data |-> title(p)]

rx(fd, data) == [cb |-> "rx", stream |-> fd, data |-> data]

-----------------------------------------------------------------------------
(* The tokio Mutex around the channel: fair, first come first served.      *)

Holds(p) == chanLock # <<>> /\ Head(chanLock) = p
InLock(p) == \E i \in 1..Len(chanLock) : chanLock[i] = p
Without(q, p) == SelectSeq(q, LAMBDA x : x # p)

-----------------------------------------------------------------------------
(* ShellToken and its string form.  A string is a sequence of one-char     *)
(* strings; a Uuid is its 32 hexadecimal digits as numbers 0..15.          *)

MaxParts == 3

HexLower == <<"0", "1", "2", "3", "4", "5", "6", "7", "8", "9",
              "a", "b", "c", "d", "e", "f">>
HexUpper == <<"0", "1", "2", "3", "4", "5", "6", "7", "8", "9",
              "A", "B", "C", "D", "E", "F">>

IsHex(c) == \E i \in 1..16 : HexLower[i] = c \/ HexUpper[i] = c
HexVal(c) == (CHOOSE i \in 1..16 : HexLower[i] = c \/ HexUpper[i] = c) - 1

(* Inputs: two Uuids, as values and as strings (hyphenated lower case and  *)
(* simple upper case), channel ids, and the pieces strings are built from. *)
UuidA ==
    <<6, 7, 14, 5, 5, 0, 4, 4, 1, 0, 11, 1, 4, 2, 6, 15, 9, 2, 4, 7, 11,
      11, 6, 8, 0, 14, 5, 15, 14, 0, 12, 8>>
UuidB ==
    <<15, 9, 1, 6, 8, 12, 5, 14, 12, 14, 11, 2, 4, 15, 10, 10, 11, 6, 11,
      15, 3, 2, 9, 11, 15, 3, 9, 15, 10, 1, 14, 4>>
UuidAStr ==
    <<"6", "7", "e", "5", "5", "0", "4", "4", "-", "1", "0", "b", "1", "-",
      "4", "2", "6", "f", "-", "9", "2", "4", "7", "-", "b", "b", "6", "8",
      "0", "e", "5", "f", "e", "0", "c", "8">>
UuidBStr ==
    <<"F", "9", "1", "6", "8", "C", "5", "E", "C", "E", "B", "2", "4", "F",
      "A", "A", "B", "6", "B", "F", "3", "2", "9", "B", "F", "3", "9", "F",
      "A", "1", "E", "4">>
NotAUuid ==
    <<"n", "o", "t", "-", "a", "-", "u", "u", "i", "d">>
NoSlashHere ==
    <<"n", "o", "-", "s", "l", "a", "s", "h", "-", "h", "e", "r", "e">>
Slash == <<"/">>
ChX == <<"x">>
ChannelIds == {<<>>, ChX, <<"s", "h", "1">>, <<"a", "/", "b">>}
Uuids == {UuidA, UuidB}
Tokens == [connection_id : Uuids, channel_id : ChannelIds]
NilToken == [connection_id |-> UuidA, channel_id |-> <<>>]
Pieces == {UuidAStr, UuidBStr, NotAUuid, NoSlashHere, Slash, ChX}

RECURSIVE Concat(_)
Concat(parts) ==
    IF parts = <<>> THEN <<>> ELSE Head(parts) \o Concat(Tail(parts))

Strings == {Concat(ps) : ps \in UNION {[1..n -> Pieces] : n \in 0..MaxParts}}

(* Display for Uuid: lower-case hexadecimal in groups 8-4-4-4-12. *)
UuidDisplay(u) ==
    LET hex(i, j) == [k \in 1..(j - i + 1) |-> HexLower[u[i + k - 1] + 1]]
    IN  hex(1, 8) \o <<"-">> \o hex(9, 12) \o <<"-">> \o hex(13, 16) \o <<"-">>
        \o hex(17, 20) \o <<"-">> \o hex(21, 32)

(* The two fields in the other order. *)
FormatSwapped(tok) == tok.channel_id \o <<"/">> \o UuidDisplay(tok.connection_id)

(* format!("{}/{}", self.connection_id, self.channel_id) *)
Format(tok) == UuidDisplay(tok.connection_id) \o <<"/">> \o tok.channel_id

(* str::split(sep): the segments between separators, at least one. *)
RECURSIVE Split(_, _)
Split(str, sep) ==
    IF \A i \in 1..Len(str) : str[i] # sep
    THEN <<str>>
    ELSE LET i == CHOOSE k \in 1..Len(str) :
                      str[k] = sep /\ \A j \in 1..(k - 1) : str[j] # sep
         IN  <<SubSeq(str, 1, i - 1)>> \o Split(SubSeq(str, i + 1, Len(str)), sep)

(* Uuid::from_str: 32 hexadecimal digits, or the hyphenated form of 36     *)
(* characters, bare, in braces, or after "urn:uuid:".                      *)
ParseSimple(str) ==
    IF Len(str) = 32 /\ \A i \in 1..32 : IsHex(str[i])
    THEN [ok |-> TRUE, value |-> [i \in 1..32 |-> HexVal(str[i])]]
    ELSE [ok |-> FALSE, value |-> <<>>]

ParseHyphenated(str) ==
    IF /\ Len(str) = 36
       /\ \A i \in {9, 14, 19, 24} : str[i] = "-"
       /\ \A i \in (1..36) \ {9, 14, 19, 24} : IsHex(str[i])
    THEN LET digits == SelectSeq(str, LAMBDA c : c # "-")
         IN  [ok |-> TRUE, value |-> [i \in 1..32 |-> HexVal(digits[i])]]
    ELSE [ok |-> FALSE, value |-> <<>>]

UrnPrefix == <<"u", "r", "n", ":", "u", "u", "i", "d", ":">>

UuidFromStr(str) ==
    CASE Len(str) = 32 -> ParseSimple(str)
      [] Len(str) = 36 -> ParseHyphenated(str)
      [] Len(str) = 38 /\ str[1] = "{" /\ str[38] = "}" ->
            ParseHyphenated(SubSeq(str, 2, 37))
      [] Len(str) = 45 /\ SubSeq(str, 1, 9) = UrnPrefix ->
            ParseHyphenated(SubSeq(str, 10, 45))
      [] OTHER -> [ok |-> FALSE, value |-> <<>>]

(* ShellTokenVisitor::visit_str: both split.next().unwrap() and            *)
(* Uuid::from_str(first).unwrap() panic on None / Err.                     *)
visit_str(value) ==
    LET split == Split(value, "/")
        first == split[1]
    IN  IF Len(split) < 2
        THEN [kind |-> "panic", token |-> NilToken]
        ELSE LET second == split[2]
                 id == UuidFromStr(first)
             IN  IF ~id.ok
                 THEN [kind |-> "panic", token |-> NilToken]
                 ELSE [kind |-> "Ok",
                       token |-> [connection_id |-> id.value,
                                  channel_id |-> second]]

-----------------------------------------------------------------------------
Init ==
    /\ channel = "Some"
    /\ chanLock = <<>>
    /\ sender = "None"
    /\ receiver = "none"
    /\ queue = <<>>
    /\ parser = NewParser(InitSize[2], InitSize[1])
    /\ has_pty \in BOOLEAN
    /\ loopPc = "idle"
    /\ loopChunk = <<>>
    /\ loopResult = "none"
    /\ status = <<>>
    /\ eof = FALSE
    /\ pc = [t \in Tasks |-> "idle"]
    /\ arg = [t \in Tasks |-> <<>>]
    /\ result = [op |-> "none", res |-> "none"]
    /\ nCalls = 0
    /\ nMsgs = 0
    /\ received = {}
    /\ lastMsg = NoMsg
    /\ sent = <<>>
    /\ accepted = <<>>
    /\ wcLog = {}
    /\ closeCount = 0
    /\ closeCalls = 0
    /\ cbOut = <<>>
    /\ shot = NoShot
    /\ loopCbs = <<>>
    /\ tokPhase = "off"
    /\ tokVal = NilToken
    /\ tokStr = <<>>
    /\ tokRes = [kind |-> "none", token |-> NilToken]

-----------------------------------------------------------------------------
(* Control calls, made by the caller tasks.                                *)

Returned(t, op, res) ==
    /\ pc' = [pc EXCEPT ![t] = "idle"]
    /\ arg' = [arg EXCEPT ![t] = <<>>]
    /\ result' = [op |-> op, res |-> res]

Called(t) ==
    /\ pc[t] = "idle"
    /\ nCalls < MaxCalls
    /\ nCalls' = nCalls + 1

(* UnboundedSender::send(..).unwrap(): the chunk is queued while the       *)
(* receiver lives; with the receiver dropped send returns Err and the      *)
(* unwrap panics.                                                          *)
SendUnwrap(rcv) == IF rcv = "open" THEN "Ok" ELSE "panic"

(* A queue that puts the chunk in front. *)
EnqueueFront(q, data) == <<data>> \o q

(* The unbounded channel: send puts the chunk behind the others. *)
Enqueue(q, data) == Append(q, data)

(* write() answering Ok when there is no sender. *)
writeOkWithoutSender(t, data) ==
    /\ Called(t)
    /\ IF sender = "Some"
       THEN LET r == SendUnwrap(receiver)
            IN  /\ queue' = IF r = "Ok" THEN Enqueue(queue, data) ELSE queue
                /\ accepted' = IF r = "Ok" THEN Append(accepted, data) ELSE accepted
                /\ Returned(t, "write", r)
       ELSE /\ UNCHANGED <<queue, accepted>>
            /\ Returned(t, "write", "Ok")
    /\ UNCHANGED <<channel, chanLock, sender, receiver, parser, has_pty, loopPc,
                   loopChunk, loopResult, status, eof, nMsgs, received, lastMsg,
                   sent, wcLog, closeCount, closeCalls, cbOut, tokVars, shot, loopCbs>>

(* Shell::write *)
write(t, data) ==
    /\ Called(t)
    /\ IF sender = "Some"
       THEN LET r == SendUnwrap(receiver)
            IN  /\ queue' = IF r = "Ok" THEN Enqueue(queue, data) ELSE queue
                /\ accepted' = IF r = "Ok" THEN Append(accepted, data) ELSE accepted
                /\ Returned(t, "write", r)
       ELSE /\ UNCHANGED <<queue, accepted>>
            /\ Returned(t, "write", "Disconnected")
    /\ UNCHANGED <<channel, chanLock, sender, receiver, parser, has_pty, loopPc,
                   loopChunk, loopResult, status, eof, nMsgs, received, lastMsg,
                   sent, wcLog, closeCount, closeCalls, cbOut, tokVars, shot, loopCbs>>

(* Shell::resize, self.channel.lock().await *)
ResizeLock(t, cols, rows) ==
    /\ Called(t)
    /\ pc' = [pc EXCEPT ![t] = "resize_lock"]
    /\ arg' = [arg EXCEPT ![t] = <<cols, rows, nCalls + 1>>]
    /\ chanLock' = Append(chanLock, t)
    /\ UNCHANGED <<channel, sender, receiver, queue, parser, has_pty, loopPc,
                   loopChunk, loopResult, status, eof, result, nMsgs, received, lastMsg,
                   sent, accepted, wcLog, closeCount, closeCalls, cbOut, tokVars, shot, loopCbs>>

(* resize() going on to set_size when window_change failed. *)
ResizeWindowChangeUnchecked(t, ok) ==
    /\ pc[t] = "resize_lock"
    /\ Holds(t)
    /\ channel = "Some"
    /\ chanLock' = Tail(chanLock)
    /\ wcLog' = IF ok
                THEN wcLog \cup {[call |-> arg[t][3], cols |-> arg[t][1],
                                  rows |-> arg[t][2], pw |-> 0, ph |-> 0]}
                ELSE wcLog
    /\ pc' = [pc EXCEPT ![t] = "resize_set"]
    /\ UNCHANGED <<arg, result>>
    /\ UNCHANGED <<channel, sender, receiver, queue, parser, has_pty, loopPc,
                   loopChunk, loopResult, status, eof, nCalls, nMsgs, received,
                   lastMsg, sent, accepted, closeCount, closeCalls, cbOut,
                   tokVars, shot, loopCbs>>

(* Shell::resize, the Some arm: ch.window_change(cols, rows, 0, 0).await?  *)
ResizeWindowChange(t, ok) ==
    /\ pc[t] = "resize_lock"
    /\ Holds(t)
    /\ channel = "Some"
    /\ chanLock' = Tail(chanLock)
    /\ IF ok
       THEN /\ wcLog' = wcLog \cup {[call |-> arg[t][3], cols |-> arg[t][1],
                                     rows |-> arg[t][2], pw |-> 0, ph |-> 0]}
            /\ pc' = [pc EXCEPT ![t] = "resize_set"]
            /\ UNCHANGED <<arg, result>>
       ELSE /\ UNCHANGED wcLog
            /\ Returned(t, "resize", "TransportError")
    /\ UNCHANGED <<channel, sender, receiver, queue, parser, has_pty, loopPc,
                   loopChunk, loopResult, status, eof, nCalls, nMsgs,
                   received, lastMsg, sent, accepted, closeCount, closeCalls, cbOut, tokVars, shot, loopCbs>>

(* resize() answering Ok when there is no channel. *)
ResizeDisconnectedOk(t) ==
    /\ pc[t] = "resize_lock"
    /\ Holds(t)
    /\ channel = "None"
    /\ chanLock' = Tail(chanLock)
    /\ Returned(t, "resize", "Ok")
    /\ UNCHANGED <<channel, sender, receiver, queue, parser, has_pty, loopPc,
                   loopChunk, loopResult, status, eof, nCalls, nMsgs, received,
                   lastMsg, sent, accepted, wcLog, closeCount, closeCalls,
                   cbOut, tokVars, shot, loopCbs>>

(* Shell::resize, the else arm: Err(Error::disconnected()) *)
ResizeDisconnected(t) ==
    /\ pc[t] = "resize_lock"
    /\ Holds(t)
    /\ channel = "None"
    /\ chanLock' = Tail(chanLock)
    /\ Returned(t, "resize", "Disconnected")
    /\ UNCHANGED <<channel, sender, receiver, queue, parser, has_pty, loopPc,
                   loopChunk, loopResult, status, eof, nCalls, nMsgs,
                   received, lastMsg, sent, accepted, wcLog, closeCount, closeCalls, cbOut, tokVars, shot, loopCbs>>

(* Shell::resize, self.parser.lock().unwrap().set_size(rows, cols) *)
ResizeSetSize(t) ==
    /\ pc[t] = "resize_set"
    /\ parser' = SetSize(parser, arg[t][2], arg[t][1])
    /\ Returned(t, "resize", "Ok")
    /\ UNCHANGED <<channel, chanLock, sender, receiver, queue, has_pty, loopPc,
                   loopChunk, loopResult, status, eof, nCalls, nMsgs,
                   received, lastMsg, sent, accepted, wcLog, closeCount, closeCalls, cbOut, tokVars, shot, loopCbs>>

(* Shell::close, self.channel.lock().await *)
CloseLock(t) ==
    /\ Called(t)
    /\ pc' = [pc EXCEPT ![t] = "close_lock"]
    /\ chanLock' = Append(chanLock, t)
    /\ UNCHANGED <<channel, sender, receiver, queue, parser, has_pty, loopPc,
                   loopChunk, loopResult, status, eof, arg, result, nMsgs, received,
                   lastMsg, sent, accepted, wcLog, closeCount, closeCalls, cbOut, tokVars, shot, loopCbs>>

(* as_mut in place of take: the channel stays in the cell. *)
TakeKeeps(ch) == [left |-> ch, taken |-> ch = "Some"]

(* The channel leaves the cell and is dropped without being closed. *)
TakeDrops(ch) == [left |-> "None", taken |-> FALSE]

(* Option::take on the channel cell: [left |-> the cell afterwards,        *)
(* taken |-> whether a channel came out].                                  *)
Take(ch) == [left |-> "None", taken |-> ch = "Some"]

(* Shell::screen: the emulator is read under its own lock; nothing awaits. *)
screen(t, cols, rows) ==
    /\ Called(t)
    /\ shot' = ShellBuffer(parser, cols)
    /\ Returned(t, "screen", "Ok")
    /\ UNCHANGED <<channel, chanLock, sender, receiver, queue, parser, has_pty,
                   loopPc, loopChunk, loopResult, status, eof, nMsgs, received,
                   lastMsg, sent, accepted, wcLog, closeCount, closeCalls,
                   cbOut, tokVars, loopCbs>>

(* close() clearing the sender cell as well. *)
closeDropsSender(t, ok) ==
    /\ pc[t] = "close_lock"
    /\ Holds(t)
    /\ chanLock' = Tail(chanLock)
    /\ closeCalls' = closeCalls + 1
    /\ sender' = "None"
    /\ LET tk == Take(channel)
       IN  /\ channel' = tk.left
           /\ IF tk.taken
              THEN /\ closeCount' = closeCount + 1
                   /\ Returned(t, "close", IF ok THEN "Ok" ELSE "TransportError")
              ELSE /\ ok
                   /\ UNCHANGED closeCount
                   /\ Returned(t, "close", "Ok")
    /\ UNCHANGED <<receiver, queue, parser, has_pty, loopPc, loopChunk,
                   loopResult, status, eof, nCalls, nMsgs, received, lastMsg,
                   sent, accepted, wcLog, cbOut, tokVars, shot, loopCbs>>

(* Shell::close, .take() and ch.close().await? on what was taken *)
close(t, ok) ==
    /\ pc[t] = "close_lock"
    /\ Holds(t)
    /\ chanLock' = Tail(chanLock)
    /\ closeCalls' = closeCalls + 1
    /\ LET tk == Take(channel)
       IN  /\ channel' = tk.left
           /\ IF tk.taken
              THEN /\ closeCount' = closeCount + 1
                   /\ Returned(t, "close", IF ok THEN "Ok" ELSE "TransportError")
              ELSE /\ ok
                   /\ UNCHANGED closeCount
                   /\ Returned(t, "close", "Ok")
    /\ UNCHANGED <<sender, receiver, queue, parser, has_pty, loopPc, loopChunk,
                   loopResult, status, eof, nCalls, nMsgs, received, lastMsg,
                   sent, accepted, wcLog, cbOut, tokVars, shot, loopCbs>>

-----------------------------------------------------------------------------
(* The protocol loop, Shell::run.                                          *)

(* unbounded_channel() and *self.sender.lock().await = Some(sender) *)
RunStart ==
    /\ loopPc = "idle"
    /\ sender' = "Some"
    /\ receiver' = "open"
    /\ queue' = <<>>
    /\ status' = <<>>
    /\ eof' = FALSE
    /\ loopPc' = "select"
    /\ UNCHANGED <<channel, chanLock, parser, has_pty, loopChunk, loopResult, pc,
                   arg, result, nCalls, nMsgs, received, lastMsg, sent, accepted,
                   wcLog, closeCount, closeCalls, cbOut, tokVars, shot, loopCbs>>

(* run() returns: the receiver is dropped with what it still holds. *)
Return(res) ==
    /\ loopPc' = "done"
    /\ loopResult' = res
    /\ receiver' = "dropped"
    /\ queue' = <<>>

(* select!: the wait() branch is polled and asks for the channel lock,     *)
(* which it keeps while ch.wait() is pending.                              *)
WaitLock ==
    /\ loopPc = "select"
    /\ ~InLock(Loop)
    /\ chanLock' = Append(chanLock, Loop)
    /\ UNCHANGED <<channel, sender, receiver, queue, parser, has_pty, loopPc,
                   loopChunk, loopResult, status, eof, pc, arg, result, 
                   nCalls, nMsgs, received, lastMsg, sent, accepted, wcLog, closeCount,
                   closeCalls, cbOut, tokVars, shot, loopCbs>>

(* select!: receiver.recv() yields Some(data); the wait() future is        *)
(* dropped, its lock or its place in line with it.                         *)
RecvData ==
    /\ loopPc = "select"
    /\ queue # <<>>
    /\ loopChunk' = Head(queue)
    /\ queue' = Tail(queue)
    /\ chanLock' = Without(chanLock, Loop)
    /\ loopPc' = "recvd"
    /\ UNCHANGED <<channel, sender, receiver, parser, has_pty, loopResult, status,
                   eof, pc, arg, result, nCalls, nMsgs, received, lastMsg, sent,
                   accepted, wcLog, closeCount, closeCalls, cbOut, tokVars, shot, loopCbs>>

(* After the log line, Shell::send asks for the channel lock. *)
SendLock ==
    /\ loopPc = "recvd"
    /\ chanLock' = Append(chanLock, Loop)
    /\ loopPc' = "send"
    /\ UNCHANGED <<channel, sender, receiver, queue, parser, has_pty, loopChunk,
                   loopResult, status, eof, pc, arg, result, nCalls, nMsgs,
                   received, lastMsg, sent, accepted, wcLog, closeCount,
                   closeCalls, cbOut, tokVars, shot, loopCbs>>

(* Shell::send under the lock: ch.data(data).await?, or Disconnected. *)
send(ok) ==
    /\ loopPc = "send"
    /\ Holds(Loop)
    /\ chanLock' = Tail(chanLock)
    /\ loopChunk' = <<>>
    /\ IF channel = "Some"
       THEN IF ok
            THEN /\ sent' = Append(sent, loopChunk)
                 /\ loopPc' = "select"
                 /\ UNCHANGED <<loopResult, receiver, queue>>
            ELSE /\ Return("TransportError")
                 /\ UNCHANGED sent
       ELSE /\ ok
            /\ Return("Disconnected")
            /\ UNCHANGED sent
    /\ UNCHANGED <<channel, sender, parser, has_pty, status, eof, pc, arg, result,
                   nCalls, nMsgs, received, lastMsg, accepted, wcLog, closeCount,
                   closeCalls, cbOut, tokVars, shot, loopCbs>>

(* cb.info(self.info()), yet to be made: info() is read when it is made. *)
InfoCall == [cb |-> "info", stream |-> 0, data |-> <<>>]

(* The callback as the sink gets it. *)
Call(c, p) == IF c.cb = "info" THEN info(p) ELSE c

(* The arms of the match over result? in run(): what one ChannelMsg does  *)
(* to the emulator, the sink, status and eof, and whether the loop breaks. *)
OnData(m, p, pty, st, e) ==
    LET pr == process(p, pty, m.data)
    IN  [parser |-> pr.parser,
         cbs |-> <<rx(0, m.data)>> \o
                 (IF pr.changed THEN <<InfoCall>> ELSE <<>>),
         status |-> st, eof |-> e, brk |-> FALSE]

OnExtendedDataAnyStream(m, p, pty, st, e) ==
    [parser |-> process(p, pty, m.data).parser,
     cbs |-> <<rx(m.ext, m.data)>>,
     status |-> st, eof |-> e, brk |-> FALSE]

OnExtendedData(m, p, pty, st, e) ==
    IF m.ext = 1
    THEN [parser |-> process(p, pty, m.data).parser,
          cbs |-> <<rx(1, m.data)>>,
          status |-> st, eof |-> e, brk |-> FALSE]
    ELSE [parser |-> p, cbs |-> <<>>, status |-> st, eof |-> e, brk |-> FALSE]

OnExitStatus(m, p, pty, st, e) ==
    [parser |-> p, cbs |-> <<>>, status |-> <<m.ext>>, eof |-> e, brk |-> e]

OnEofBreaks(m, p, pty, st, e) ==
    [parser |-> p, cbs |-> <<>>, status |-> st, eof |-> TRUE, brk |-> TRUE]

OnEof(m, p, pty, st, e) ==
    [parser |-> p, cbs |-> <<>>, status |-> st, eof |-> TRUE, brk |-> st # <<>>]

OnCloseBreaks(m, p, pty, st, e) ==
    [parser |-> p, cbs |-> <<>>, status |-> st, eof |-> e, brk |-> TRUE]

OnClose(m, p, pty, st, e) ==
    [parser |-> p, cbs |-> <<>>, status |-> st, eof |-> e, brk |-> FALSE]

OnOther(m, p, pty, st, e) ==
    [parser |-> p, cbs |-> <<>>, status |-> st, eof |-> e, brk |-> FALSE]

Handle(m, p, pty, st, e) ==
    CASE m.type = "Data" -> OnData(m, p, pty, st, e)
      [] m.type = "ExtendedData" -> OnExtendedData(m, p, pty, st, e)
      [] m.type = "ExitStatus" -> OnExitStatus(m, p, pty, st, e)
      [] m.type = "Eof" -> OnEof(m, p, pty, st, e)
      [] m.type = "Close" -> OnClose(m, p, pty, st, e)
      [] OTHER -> OnOther(m, p, pty, st, e)

(* select!: wait() yields Ok(m) from ch.wait() and lets go of the channel  *)
(* lock; the message is yet to be matched.                                 *)
WaitMsg(m) ==
    /\ loopPc = "select"
    /\ Holds(Loop)
    /\ channel = "Some"
    /\ nMsgs < MaxMsgs
    /\ nMsgs' = nMsgs + 1
    /\ received' = received \cup ({m.type} \cap {"Eof", "ExitStatus"})
    /\ lastMsg' = m
    /\ chanLock' = Tail(chanLock)
    /\ loopPc' = "handle"
    /\ cbOut' = <<>>
    /\ UNCHANGED <<channel, sender, receiver, queue, parser, has_pty, loopChunk,
                   loopResult, status, eof, pc, arg, result, nCalls, sent,
                   accepted, wcLog, closeCount, closeCalls, tokVars, shot,
                   loopCbs>>

(* The arm of the match for the message taken: the emulator is fed, status *)
(* and eof are set, the loop breaks or goes on to the arm's callbacks.     *)
HandleMsg ==
    /\ loopPc = "handle"
    /\ LET h == Handle(lastMsg, parser, has_pty, status, eof)
       IN  /\ parser' = h.parser
           /\ loopCbs' = h.cbs
           /\ status' = h.status
           /\ eof' = h.eof
           /\ IF h.brk
              THEN Return("Ok")
              ELSE /\ loopPc' = IF h.cbs = <<>> THEN "select" ELSE "cb"
                   /\ UNCHANGED <<loopResult, receiver, queue>>
    /\ UNCHANGED <<channel, chanLock, sender, has_pty, loopChunk, pc, arg,
                   result, nCalls, nMsgs, received, lastMsg, sent, accepted,
                   wcLog, closeCount, closeCalls, cbOut, tokVars, shot>>

(* cb.rx(..) or cb.info(self.info()): the next callback of the arm. *)
Callback ==
    /\ loopPc = "cb"
    /\ cbOut' = Append(cbOut, Call(Head(loopCbs), parser))
    /\ loopCbs' = Tail(loopCbs)
    /\ loopPc' = IF Tail(loopCbs) = <<>> THEN "select" ELSE "cb"
    /\ UNCHANGED <<channel, chanLock, sender, receiver, queue, parser, has_pty,
                   loopChunk, loopResult, status, eof, pc, arg, result, nCalls,
                   nMsgs, received, lastMsg, sent, accepted, wcLog, closeCount,
                   closeCalls, tokVars, shot>>

(* A wait() that, finding the channel cell empty, lets go of the lock and  *)
(* leaves the loop to try again.                                           *)
WaitRetries ==
    /\ loopPc = "select"
    /\ Holds(Loop)
    /\ chanLock' = Tail(chanLock)
    /\ IF channel = "None"
       THEN UNCHANGED <<loopPc, loopResult, receiver, queue>>
       ELSE Return("Disconnected")
    /\ UNCHANGED <<channel, sender, parser, has_pty, loopChunk, status, eof, pc,
                   arg, result, nCalls, nMsgs, received, lastMsg, sent, accepted,
                   wcLog, closeCount, closeCalls, cbOut, tokVars, shot, loopCbs>>

(* select!: wait() yields Err(Disconnected): the channel cell is empty, or *)
(* ch.wait() returned None; result? returns it from run().                 *)
WaitDisconnected ==
    /\ loopPc = "select"
    /\ Holds(Loop)
    /\ chanLock' = Tail(chanLock)
    /\ Return("Disconnected")
    /\ UNCHANGED <<channel, sender, parser, has_pty, loopChunk, status, eof, pc,
                   arg, result, nCalls, nMsgs, received, lastMsg, sent, accepted,
                   wcLog, closeCount, closeCalls, cbOut, tokVars, shot, loopCbs>>

(* The owner of the actor lets go of the outbound sender: the only sender  *)
(* of the queue is dropped.                                                *)
DropSender ==
    /\ loopPc # "idle"
    /\ sender = "Some"
    /\ sender' = "None"
    /\ UNCHANGED <<channel, chanLock, receiver, queue, parser, has_pty, loopPc,
                   loopChunk, loopResult, status, eof, pc, arg, result, nCalls,
                   nMsgs, received, lastMsg, sent, accepted, wcLog, closeCount,
                   closeCalls, cbOut, tokVars, shot, loopCbs>>

(* The queue-closed arm leaving the loop without calling close(). *)
RecvClosedBreaks ==
    /\ loopPc = "select"
    /\ receiver = "open"
    /\ sender = "None"
    /\ queue = <<>>
    /\ chanLock' = Without(chanLock, Loop)
    /\ Return("Ok")
    /\ UNCHANGED <<channel, sender, parser, has_pty, loopChunk, status, eof, pc,
                   arg, result, nCalls, nMsgs, received, lastMsg, sent, accepted,
                   wcLog, closeCount, closeCalls, cbOut, tokVars, shot, loopCbs>>

(* select!: receiver.recv() yields None, the queue being empty with every  *)
(* sender dropped; the wait() future is dropped, its lock or its place in  *)
(* line with it.                                                           *)
RecvClosed ==
    /\ loopPc = "select"
    /\ receiver = "open"
    /\ sender = "None"
    /\ queue = <<>>
    /\ chanLock' = Without(chanLock, Loop)
    /\ loopPc' = "closed"
    /\ UNCHANGED <<channel, sender, receiver, queue, parser, has_pty, loopChunk,
                   loopResult, status, eof, pc, arg, result, nCalls, nMsgs,
                   received, lastMsg, sent, accepted, wcLog, closeCount,
                   closeCalls, cbOut, tokVars, shot, loopCbs>>

(* After the log line, self.close() asks for the channel lock. *)
LoopCloseLock ==
    /\ loopPc = "closed"
    /\ chanLock' = Append(chanLock, Loop)
    /\ loopPc' = "closing"
    /\ UNCHANGED <<channel, sender, receiver, queue, parser, has_pty, loopChunk,
                   loopResult, status, eof, pc, arg, result, nCalls, nMsgs,
                   received, lastMsg, sent, accepted, wcLog, closeCount,
                   closeCalls, cbOut, tokVars, shot, loopCbs>>

(* self.close().await? under the lock, then break and Ok(()). *)
LoopClose(ok) ==
    /\ loopPc = "closing"
    /\ Holds(Loop)
    /\ chanLock' = Tail(chanLock)
    /\ closeCalls' = closeCalls + 1
    /\ LET tk == Take(channel)
       IN  /\ channel' = tk.left
           /\ IF tk.taken
              THEN /\ closeCount' = closeCount + 1
                   /\ Return(IF ok THEN "Ok" ELSE "TransportError")
              ELSE /\ ok
                   /\ UNCHANGED closeCount
                   /\ Return("Ok")
    /\ UNCHANGED <<sender, parser, has_pty, loopChunk, status, eof, pc, arg,
                   result, nCalls, nMsgs, received, lastMsg, sent, accepted,
                   wcLog, cbOut, tokVars, shot, loopCbs>>

-----------------------------------------------------------------------------
Next ==
    \/ \E t \in Tasks, data \in Chunks : write(t, data)
    \/ \E t \in Tasks, sz \in Sizes : ResizeLock(t, sz[1], sz[2])
    \/ \E t \in Tasks, ok \in BOOLEAN : ResizeWindowChange(t, ok)
    \/ \E t \in Tasks : ResizeDisconnected(t)
    \/ \E t \in Tasks : ResizeSetSize(t)
    \/ \E t \in Tasks : CloseLock(t)
    \/ \E t \in Tasks, ok \in BOOLEAN : close(t, ok)
    \/ RunStart
    \/ WaitLock
    \/ RecvData
    \/ SendLock
    \/ \E ok \in BOOLEAN : send(ok)
    \/ \E m \in Msgs : WaitMsg(m)
    \/ HandleMsg
    \/ Callback
    \/ WaitDisconnected

Spec == Init /\ [][Next]_vars

(* One message of each kind that ends, or does not end, the loop. *)
CancelMsgs ==
    {m \in Msgs : m.type # "ExtendedData" /\ m.data \in {<<>>, PlainA}}

(* Scheduling: a task that can run is run. The loop's own steps that wait  *)
(* for nothing outside (asking for the lock, taking a queued chunk,        *)
(* sending it, finding the channel cell empty) are taken, and a control    *)
(* call holding or granted the channel lock goes on to its end. Nothing is *)
(* assumed of the remote side or of callers making new calls.              *)
LoopStep ==
    \/ WaitLock
    \/ RecvData
    \/ SendLock
    \/ \E ok \in BOOLEAN : send(ok)
    \/ HandleMsg
    \/ Callback
    \/ channel = "None" /\ WaitDisconnected

TaskStep(t) ==
    \/ \E ok \in BOOLEAN : ResizeWindowChange(t, ok)
    \/ ResizeDisconnected(t)
    \/ ResizeSetSize(t)
    \/ \E ok \in BOOLEAN : close(t, ok)

(* The messages that feed the emulator or end the loop. *)
FairMsgs == {m \in CancelMsgs : m.type \in {"Data", "Eof", "ExitStatus"}}

NextFair ==
    \/ \E t \in Tasks, data \in Chunks : write(t, data)
    \/ \E t \in Tasks, sz \in Sizes : ResizeLock(t, sz[1], sz[2])
    \/ \E t \in Tasks, ok \in BOOLEAN : ResizeWindowChange(t, ok)
    \/ \E t \in Tasks : ResizeDisconnected(t)
    \/ \E t \in Tasks : ResizeSetSize(t)
    \/ \E t \in Tasks : CloseLock(t)
    \/ \E t \in Tasks, ok \in BOOLEAN : close(t, ok)
    \/ RunStart
    \/ WaitLock
    \/ RecvData
    \/ SendLock
    \/ \E ok \in BOOLEAN : send(ok)
    \/ \E m \in FairMsgs : WaitMsg(m)
    \/ HandleMsg
    \/ Callback
    \/ WaitDisconnected

FairSpec ==
    /\ Init
    /\ [][NextFair]_vars
    /\ WF_vars(LoopStep)
    /\ \A t \in Tasks : WF_vars(TaskStep(t))

(* The actor on a small terminal, with screen() among its control calls   *)
(* and the remote side sending text and line breaks.                       *)
ScreenSizes == {<<3, 3>>, <<2, 2>>}
ScreenInitSize == <<3, 4>>
Widths == {1, 3}
CrLf == <<13, 10>>
TwoLines == <<97, 13, 10, 13, 10, 98>>
ScreenMsgs ==
    [type : {"Data"}, data : {PlainA, CrLf, TwoLines}, ext : {0}]

InitScreen ==
    /\ channel = "Some"
    /\ chanLock = <<>>
    /\ sender = "None"
    /\ receiver = "none"
    /\ queue = <<>>
    /\ parser = NewParser(ScreenInitSize[2], ScreenInitSize[1])
    /\ has_pty = TRUE
    /\ loopPc = "idle"
    /\ loopChunk = <<>>
    /\ loopResult = "none"
    /\ status = <<>>
    /\ eof = FALSE
    /\ pc = [t \in Tasks |-> "idle"]
    /\ arg = [t \in Tasks |-> <<>>]
    /\ result = [op |-> "none", res |-> "none"]
    /\ nCalls = 0
    /\ nMsgs = 0
    /\ received = {}
    /\ lastMsg = NoMsg
    /\ sent = <<>>
    /\ accepted = <<>>
    /\ wcLog = {}
    /\ closeCount = 0
    /\ closeCalls = 0
    /\ cbOut = <<>>
    /\ shot = NoShot
    /\ loopCbs = <<>>
    /\ tokPhase = "off"
    /\ tokVal = NilToken
    /\ tokStr = <<>>
    /\ tokRes = [kind |-> "none", token |-> NilToken]

NextScreen ==
    \/ \E t \in Tasks, w \in Widths, h \in Widths : screen(t, w, h)
    \/ \E t \in Tasks, sz \in ScreenSizes : ResizeLock(t, sz[1], sz[2])
    \/ \E t \in Tasks, ok \in BOOLEAN : ResizeWindowChange(t, ok)
    \/ \E t \in Tasks : ResizeDisconnected(t)
    \/ \E t \in Tasks : ResizeSetSize(t)
    \/ \E t \in Tasks : CloseLock(t)
    \/ \E t \in Tasks, ok \in BOOLEAN : close(t, ok)
    \/ RunStart
    \/ WaitLock
    \/ \E m \in ScreenMsgs : WaitMsg(m)
    \/ HandleMsg
    \/ Callback
    \/ WaitDisconnected

SpecScreen == InitScreen /\ [][NextScreen]_vars

(* The actor with an owner that may drop the outbound sender, callers    *)
(* that write and close, and a remote side sending one kind of each event. *)
NextCancel ==
    \/ \E t \in Tasks, data \in Chunks : write(t, data)
    \/ \E t \in Tasks : CloseLock(t)
    \/ \E t \in Tasks, ok \in BOOLEAN : close(t, ok)
    \/ RunStart
    \/ WaitLock
    \/ RecvData
    \/ SendLock
    \/ \E ok \in BOOLEAN : send(ok)
    \/ \E m \in CancelMsgs : WaitMsg(m)
    \/ HandleMsg
    \/ Callback
    \/ WaitDisconnected
    \/ DropSender
    \/ RecvClosed
    \/ LoopCloseLock
    \/ \E ok \in BOOLEAN : LoopClose(ok)

SpecCancel == Init /\ [][NextCancel]_vars

-----------------------------------------------------------------------------
(* Serialize and Deserialize of ShellToken on their own: a token is        *)
(* serialized and the string read back, or a given string is deserialized. *)

InitToken ==
    /\ channel = "Some"
    /\ chanLock = <<>>
    /\ sender = "None"
    /\ receiver = "none"
    /\ queue = <<>>
    /\ parser = NewParser(InitSize[2], InitSize[1])
    /\ has_pty = TRUE
    /\ loopPc = "idle"
    /\ loopChunk = <<>>
    /\ loopResult = "none"
    /\ status = <<>>
    /\ eof = FALSE
    /\ pc = [t \in Tasks |-> "idle"]
    /\ arg = [t \in Tasks |-> <<>>]
    /\ result = [op |-> "none", res |-> "none"]
    /\ nCalls = 0
    /\ nMsgs = 0
    /\ received = {}
    /\ lastMsg = NoMsg
    /\ sent = <<>>
    /\ accepted = <<>>
    /\ wcLog = {}
    /\ closeCount = 0
    /\ closeCalls = 0
    /\ cbOut = <<>>
    /\ shot = NoShot
    /\ loopCbs = <<>>
    /\ tokRes = [kind |-> "none", token |-> NilToken]
    /\ \/ tokPhase = "token" /\ tokVal \in Tokens /\ tokStr = <<>>
       \/ tokPhase = "string" /\ tokVal = NilToken /\ tokStr \in Strings

(* impl Serialize for ShellToken *)
serialize ==
    /\ tokPhase = "token"
    /\ tokStr' = Format(tokVal)
    /\ tokPhase' = "encoded"
    /\ UNCHANGED <<tokVal, tokRes, shellVars>>

(* impl Deserialize for ShellToken, through ShellTokenVisitor *)
deserialize ==
    /\ tokPhase \in {"string", "encoded"}
    /\ tokRes' = visit_str(tokStr)
    /\ tokPhase' = IF tokPhase = "encoded" THEN "roundtrip" ELSE "decoded"
    /\ UNCHANGED <<tokVal, tokStr, shellVars>>

NextToken == serialize \/ deserialize

SpecToken == InitToken /\ [][NextToken]_vars

-----------------------------------------------------------------------------
(* Properties.                                                             *)

Running == loopPc \in {"select", "recvd", "send", "handle", "cb"}

(* The step runs the match arm of the message taken. *)
HandleStep == loopPc = "handle" /\ loopPc' # "handle"

(* The step ends the handling of the message taken. *)
HandledStep == loopPc \in {"handle", "cb"} /\ loopPc' \notin {"handle", "cb"}

(* The step is a write() call: it counts as a call and leaves every task   *)
(* where it was.                                                           *)
WriteStep == nCalls' = nCalls + 1 /\ pc' = pc

(* The step takes a message from the remote channel. *)
MsgStep == nMsgs' = nMsgs + 1

IsPrefix(a, b) == Len(a) <= Len(b) /\ \A i \in 1..Len(a) : a[i] = b[i]

(* C1: once run() has been entered, it has returned Ok only when the       *)
(* remote side has delivered both an Eof and an ExitStatus, in either      *)
(* order; with only one of them (and whatever else) it has not returned    *)
(* Ok: it is still running, or it ended with an error. And with both       *)
(* delivered it has returned Ok, or is in the match arm of the second of   *)
(* them, which returns Ok.                                                 *)
C1_TerminatesOnEofAndStatus ==
    loopPc # "idle" =>
        /\ (loopPc = "done" /\ loopResult = "Ok")
              => received = {"Eof", "ExitStatus"}
        /\ received = {"Eof", "ExitStatus"} =>
              \/ loopPc = "done" /\ loopResult = "Ok"
              \/ /\ loopPc = "handle"
                 /\ lastMsg.type \in {"Eof", "ExitStatus"}
                 /\ Handle(lastMsg, parser, has_pty, status, eof).brk

C1_Witness ==
    /\ loopPc = "done"
    /\ loopResult = "Ok"
    /\ lastMsg.type = "ExitStatus"
    /\ received = {"Eof", "ExitStatus"}

(* C2: a write() made after run() has returned answers Disconnected (and   *)
(* so does not panic).                                                     *)
C2_WriteAfterTeardown ==
    [][(WriteStep /\ loopPc = "done") => result'.res = "Disconnected"]_vars

(* C3: a close() that finds the channel takes it and sends exactly one     *)
(* close to the remote side, answering Ok unless that close fails; a       *)
(* close() that finds no channel answers Ok and changes nothing but the    *)
(* caller's own return; the remote side never gets a second close.         *)
C3_IdempotentClose ==
    [][\A t \in Tasks :
          (pc[t] = "close_lock" /\ pc'[t] = "idle") =>
              /\ channel' = "None"
              /\ closeCount' <= 1
              /\ result'.op = "close"
              /\ channel = "Some" =>
                    /\ closeCount' = closeCount + 1
                    /\ result'.res \in {"Ok", "TransportError"}
              /\ channel = "None" =>
                    /\ result'.res = "Ok"
                    /\ UNCHANGED <<closeCount, sender, receiver, queue, parser,
                                   loopPc, loopResult, status, eof, sent,
                                   accepted, wcLog, cbOut>>]_vars

C3_Witness ==
    /\ closeCalls = 2
    /\ closeCount = 1
    /\ channel = "None"
    /\ result.op = "close"
    /\ result.res = "Ok"

(* C4: the chunks the remote side has received through ch.data are a       *)
(* prefix of the chunks write() accepted, in the order it accepted them.   *)
C4_FifoForwarding == IsPrefix(sent, accepted)

C4_Witness == Len(sent) = 2 /\ sent[1] # sent[2]

(* C5: deserializing a string gives a token or a typed error, and a typed  *)
(* error when the string has no '/' (the empty string included) or its     *)
(* first segment is no Uuid; it never panics.                              *)
C5_DecodeTypedError ==
    tokPhase = "decoded" =>
        /\ tokRes.kind \in {"Ok", "Err"}
        /\ (\/ \A i \in 1..Len(tokStr) : tokStr[i] # "/"
            \/ ~UuidFromStr(Split(tokStr, "/")[1]).ok) => tokRes.kind = "Err"

(* C6: for a token whose channel id is not empty and holds no '/',         *)
(* deserializing its serialized form gives the token back.                 *)
C6_RoundTrip ==
    (/\ tokPhase = "roundtrip"
     /\ tokVal.channel_id # <<>>
     /\ \A i \in 1..Len(tokVal.channel_id) : tokVal.channel_id[i] # "/")
        => tokRes = [kind |-> "Ok", token |-> tokVal]

C6_Witness ==
    /\ tokPhase = "roundtrip"
    /\ tokVal.connection_id = UuidB
    /\ tokVal.channel_id = <<"s", "h", "1">>
    /\ tokRes.kind = "Ok"

(* C7: taking ExtendedData with a stream id other than 1 invokes no        *)
(* callback, leaves the emulator, eof and status as they were and the loop *)
(* running; with stream id 1 the sink gets rx(1, bytes) once.              *)
C7_ExtendedRouting ==
    [][lastMsg.type = "ExtendedData" =>
          /\ (HandleStep /\ lastMsg.ext # 1) =>
                /\ cbOut' = <<>>
                /\ UNCHANGED <<parser, eof, status>>
                /\ loopPc' = "select"
          /\ (HandledStep /\ lastMsg.ext = 1) =>
                cbOut' = <<rx(1, lastMsg.data)>>]_vars

C7_Witness ==
    /\ lastMsg.type = "ExtendedData"
    /\ lastMsg.ext = 2
    /\ lastMsg.data = TitleH
    /\ has_pty
    /\ loopPc = "select"

(* C8 as stated: the arm of a Data message goes on to call cb.info exactly *)
(* when feeding the bytes changed the emulator's title.                    *)
C8_InfoIffTitleChanged ==
    [][(lastMsg.type = "Data" /\ HandleStep) =>
          ((\E i \in 1..Len(loopCbs') : loopCbs'[i] = InfoCall)
              <=> parser'.title # parser.title)]_vars

(* C8: taking Data invokes rx(0, bytes) once, first, with or without a     *)
(* pty; the emulator is fed the bytes if has_pty and untouched otherwise;  *)
(* info follows, once, exactly when the feed changed the emulator's title  *)
(* or its icon name, which it never does without a pty.                    *)
C8_PrimaryData ==
    [][lastMsg.type = "Data" =>
          /\ HandleStep =>
                /\ parser' = IF has_pty THEN ParserProcess(parser, lastMsg.data)
                                        ELSE parser
                /\ cbOut' = <<>>
                /\ loopCbs' # <<>>
                /\ loopCbs'[1] = rx(0, lastMsg.data)
                /\ IF parser'.title # parser.title \/ parser'.icon # parser.icon
                   THEN loopCbs' = <<rx(0, lastMsg.data), InfoCall>>
                   ELSE Len(loopCbs') = 1
                /\ ~has_pty => Len(loopCbs') = 1
          /\ (loopPc = "cb" /\ loopPc' # "cb") =>
                /\ loopPc' = "select"
                /\ loopCbs' = <<>>
                /\ cbOut'[1] = rx(0, lastMsg.data)
                /\ \A i \in 2..Len(cbOut') : cbOut'[i].cb # "rx"
                /\ IF Len(loopCbs) + Len(cbOut) = 2
                   THEN cbOut' = <<rx(0, lastMsg.data), info(parser')>>
                   ELSE Len(cbOut') = 1]_vars

(* The sink has got rx and info for an icon-name sequence that came after *)
(* a title sequence: the title it is told is the one it was told before.   *)
C8_Witness ==
    /\ lastMsg.type = "Data"
    /\ lastMsg.data = IconX
    /\ loopPc = "select"
    /\ cbOut = <<rx(0, IconX), [cb |-> "info", stream |-> 0, data |-> <<104>>]>>
    /\ parser.title = <<104>>
    /\ parser.icon = <<120>>

(* C9: a write() made before run() was entered answers Disconnected and    *)
(* queues nothing; a write() made while the loop runs answers Ok and its   *)
(* chunk is the new last element of the queue.                             *)
C9_WriteNeedsSender ==
    [][WriteStep =>
          /\ loopPc = "idle" =>
                /\ result'.res = "Disconnected"
                /\ UNCHANGED <<queue, accepted>>
          /\ Running =>
                /\ result'.res = "Ok"
                /\ Len(queue') = Len(queue) + 1
                /\ SubSeq(queue', 1, Len(queue)) = queue
                /\ queue'[Len(queue')] \in Chunks]_vars

C9_Witness ==
    /\ Running
    /\ result.op = "write"
    /\ result.res = "Ok"
    /\ Len(queue) = 2

(* C10: a resize() that finds no channel answers Disconnected and leaves   *)
(* the emulator alone; the emulator's size changes only in the set_size    *)
(* step of a resize() call whose own window-change (cols, rows, 0, 0) the  *)
(* remote side has received, and becomes that call's rows and cols.        *)
C10_ResizeAfterWindowChange ==
    [][/\ \A t \in Tasks :
            (pc[t] = "resize_lock" /\ pc'[t] = "idle" /\ channel = "None") =>
                /\ result' = [op |-> "resize", res |-> "Disconnected"]
                /\ parser' = parser
       /\ (parser'.rows # parser.rows \/ parser'.cols # parser.cols) =>
            \E t \in Tasks :
                /\ pc[t] = "resize_set"
                /\ pc'[t] = "idle"
                /\ [call |-> arg[t][3], cols |-> arg[t][1], rows |-> arg[t][2],
                    pw |-> 0, ph |-> 0] \in wcLog
                /\ parser'.cols = arg[t][1]
                /\ parser'.rows = arg[t][2]]_vars

C10_Witness ==
    /\ channel = "None"
    /\ closeCount = 1
    /\ parser.cols = 100
    /\ parser.rows = 30
    /\ result.op = "resize"
    /\ result.res = "Ok"

(* C11: once run() has returned, by whatever path, it holds no place in    *)
(* the channel lock, and the channel is either gone from the cell and was  *)
(* closed once, or still in the cell and not yet closed; a close() that    *)
(* then finds it takes it and closes it.                                   *)
C11_NoLeakedChannel ==
    [][loopPc' = "done" =>
          /\ \A i \in 1..Len(chanLock') : chanLock'[i] # Loop
          /\ channel' = "None" => closeCount' = 1
          /\ channel' = "Some" => closeCount' = 0
          /\ \A t \in Tasks :
                (/\ loopPc = "done"
                 /\ channel = "Some"
                 /\ pc[t] = "close_lock"
                 /\ pc'[t] = "idle") => (channel' = "None" /\ closeCount' = 1)]_vars

C11_Witness ==
    /\ loopPc = "done"
    /\ loopResult = "Ok"
    /\ channel = "None"
    /\ closeCount = 1
    /\ result.op = "close"

(* C13: taking Close leaves eof, status, the channel, the queue and the    *)
(* emulator as they were, invokes no callback and leaves the loop running. *)
C13_CloseIsInformational ==
    [][/\ (MsgStep /\ lastMsg'.type = "Close") =>
            /\ UNCHANGED <<eof, status, channel, sender, receiver, queue, parser>>
            /\ cbOut' = <<>>
            /\ loopPc' = "handle"
       /\ (HandleStep /\ lastMsg.type = "Close") =>
            /\ UNCHANGED <<eof, status, channel, sender, receiver, queue, parser>>
            /\ cbOut' = <<>>
            /\ loopPc' = "select"
            /\ loopResult' = "none"]_vars

C13_Witness ==
    /\ lastMsg.type = "Close"
    /\ loopPc = "select"
    /\ received = {"Eof"}
    /\ nMsgs = 2

(* C17: whenever the bytes of an inbound message change the title that     *)
(* info() reports, the arm goes on to call cb.info before the loop takes   *)
(* its next event.                                                         *)
C17_TitleChangeNotified ==
    [][(HandleStep /\ title(parser') # title(parser)) =>
          /\ loopPc' = "cb"
          /\ \E i \in 1..Len(loopCbs') : loopCbs'[i] = InfoCall]_vars

(* C19: the channel cell changes only from present to absent, and only in  *)
(* a close() call; once absent it stays absent, no message is taken from   *)
(* it any more, a resize() that looks into the cell answers Disconnected,  *)
(* and the loop's send or wait ends run() with Disconnected.               *)
C19_ChannelMonotonic ==
    [][/\ channel' # channel =>
            /\ channel = "Some"
            /\ channel' = "None"
            /\ \E t \in Tasks : pc[t] = "close_lock" /\ pc'[t] = "idle"
       /\ channel = "None" =>
            /\ channel' = "None"
            /\ nMsgs' = nMsgs
            /\ sent' = sent
            /\ \A t \in Tasks :
                  (pc[t] = "resize_lock" /\ pc'[t] # "resize_lock") =>
                      /\ pc'[t] = "idle"
                      /\ result' = [op |-> "resize", res |-> "Disconnected"]
            /\ (loopPc \in {"select", "send"} /\ loopPc' \notin {"select", "send"}) =>
                  \/ loopPc' = "done" /\ loopResult' = "Disconnected"
                  \/ loopPc = "select" /\ loopPc' = "recvd"]_vars

C19_Witness ==
    /\ channel = "None"
    /\ result = [op |-> "resize", res |-> "Disconnected"]
    /\ loopPc = "done"
    /\ loopResult = "Disconnected"

(* C14: once the loop has seen the queue closed it takes no inbound        *)
(* message and forwards no write any more; it leaves that arm only by      *)
(* returning from run(), after one close() of its own, and the channel is  *)
(* then absent; and run() returns Ok short of Eof and ExitStatus only      *)
(* through that close().                                                   *)
C14_QueueClosedShutdown ==
    [][/\ loopPc \in {"closed", "closing"} =>
            /\ nMsgs' = nMsgs
            /\ sent' = sent
            /\ cbOut' = cbOut
            /\ parser'.title = parser.title
            /\ loopPc' \in {"closed", "closing", "done"}
            /\ loopPc' = "done" =>
                  /\ closeCalls' = closeCalls + 1
                  /\ channel' = "None"
                  /\ closeCount' = 1
                  /\ loopResult' \in {"Ok", "TransportError"}
                  /\ channel = "None" => loopResult' = "Ok"
       /\ (/\ loopPc # "done"
           /\ loopPc' = "done"
           /\ loopResult' = "Ok"
           /\ received' # {"Eof", "ExitStatus"}) =>
              (loopPc = "closing" /\ sender = "None" /\ channel' = "None")]_vars

C14_Witness ==
    /\ loopPc = "done"
    /\ loopResult = "Ok"
    /\ sender = "None"
    /\ channel = "None"
    /\ closeCalls = 1
    /\ closeCount = 1
    /\ nMsgs = 1

(* C20: from the moment run() has installed the sender it stays in its     *)
(* cell; while the loop runs the receiver is open and the queue-closed arm *)
(* cannot be taken; run() has returned only with Ok after both Eof and     *)
(* ExitStatus, or with a propagated error.                                 *)
C20_SenderStays ==
    /\ loopPc # "idle" => sender = "Some"
    /\ Running => receiver = "open"
    /\ ~ ENABLED RecvClosed
    /\ loopPc \notin {"closed", "closing"}
    /\ loopPc = "done" =>
          \/ loopResult = "Ok" /\ received = {"Eof", "ExitStatus"}
          \/ loopResult \in {"Disconnected", "TransportError"}

C20_Witness ==
    /\ Running
    /\ sender = "Some"
    /\ closeCalls = 1
    /\ channel = "None"
    /\ accepted # <<>>
    /\ result = [op |-> "write", res |-> "Ok"]

(* C12: a screen() call succeeds with or without a channel, changes       *)
(* nothing of the actor, and returns the cursor and the rows rendered at   *)
(* the asked width up to and including the last one that is not empty:     *)
(* the returned rows are a prefix of the rendered rows, in order, every    *)
(* rendered row after them is empty, and the last returned row is not.     *)
ScreenStep == nCalls' = nCalls + 1 /\ pc' = pc /\ result'.op = "screen"

C12_ScreenTrimming ==
    [][ScreenStep =>
          /\ result'.res = "Ok"
          /\ UNCHANGED <<channel, chanLock, sender, receiver, queue, parser,
                         has_pty, loopPc, loopResult, status, eof, sent, wcLog,
                         closeCount, cbOut>>
          /\ shot'.cursor = parser.cur
          /\ \E w \in Widths :
                LET rs == rows_formatted(parser, w)
                    n  == Len(shot'.rows)
                IN  /\ n <= Len(rs)
                    /\ \A i \in 1..n : shot'.rows[i] = rs[i]
                    /\ \A i \in (n + 1)..Len(rs) : rs[i] = <<>>
                    /\ n > 0 => rs[n] # <<>>]_vars

(* screen() has returned a first row with text, an empty row kept between  *)
(* rows with text, and fewer rows than the emulator has; the channel is    *)
(* gone.                                                                   *)
C12_Witness ==
    /\ result = [op |-> "screen", res |-> "Ok"]
    /\ channel = "None"
    /\ Len(shot.rows) = 3
    /\ shot.rows[1] # <<>>
    /\ shot.rows[2] = <<>>
    /\ shot.rows[3] # <<>>
    /\ parser.rows = 4

(* C18 as stated: the emulator changes only in a step that handles a       *)
(* message from the remote side, and only with has_pty.                    *)
C18_OnlyRemoteBytes ==
    [][parser' # parser => (HandleStep /\ has_pty)]_vars

(* C18: the emulator changes either when the loop feeds it the bytes of a  *)
(* Data or ExtendedData message, with has_pty, its size staying as it was; *)
(* or in the set_size of a resize(), with or without has_pty, its title    *)
(* and parse state staying as they were and its size becoming the one      *)
(* asked for. write() and the forwarding of chunks leave it alone.         *)
C18_EmulatorMutationSources ==
    [][parser' # parser =>
          \/ /\ HandleStep
             /\ has_pty
             /\ lastMsg.type \in {"Data", "ExtendedData"}
             /\ parser' = ParserProcess(parser, lastMsg.data)
             /\ parser'.rows = parser.rows
             /\ parser'.cols = parser.cols
          \/ /\ nMsgs' = nMsgs
             /\ sent' = sent
             /\ accepted' = accepted
             /\ \E t \in Tasks :
                   /\ pc[t] = "resize_set"
                   /\ pc'[t] = "idle"
                   /\ parser'.rows = arg[t][2]
                   /\ parser'.cols = arg[t][1]
             /\ parser'.title = parser.title
             /\ parser'.icon = parser.icon
             /\ parser'.pst = parser.pst
             /\ parser'.buf = parser.buf]_vars

(* Without a pty: a Data message has been taken and left the emulator as   *)
(* it was, and a resize() has given it the new size.                       *)
C18_Witness ==
    /\ ~has_pty
    /\ lastMsg.type = "Data"
    /\ lastMsg.data = TitleH
    /\ parser.title = <<>>
    /\ parser.cols = 100
    /\ parser.rows = 30
    /\ result = [op |-> "resize", res |-> "Ok"]

(* C15 as stated: under fair scheduling, whenever the loop is running and  *)
(* the channel cell is empty, run() eventually returns Disconnected.       *)
C15_CloseLeadsToDisconnected ==
    (Running /\ channel = "None") ~> (loopPc = "done" /\ loopResult = "Disconnected")

(* C15: under fair scheduling, whenever the loop is running and the        *)
(* channel cell is empty, run() eventually returns: Disconnected, or Ok    *)
(* when both Eof and ExitStatus had been taken from the channel before it  *)
(* left the cell.                                                          *)
C15_CloseLeadsToExit ==
    (Running /\ channel = "None") ~>
        (/\ loopPc = "done"
         /\ \/ loopResult = "Disconnected"
            \/ loopResult = "Ok" /\ received = {"Eof", "ExitStatus"})

(* A close() took the channel after the loop had taken a message, and the  *)
(* loop has ended with Disconnected.                                       *)
C15_Witness ==
    /\ loopPc = "done"
    /\ loopResult = "Disconnected"
    /\ channel = "None"
    /\ closeCount = 1
    /\ lastMsg.type = "Data"
    /\ result = [op |-> "close", res |-> "Ok"]

(* C16: under fair scheduling a close() or resize() that is waiting for    *)
(* the channel lock eventually returns, whether or not the remote side     *)
(* sends anything and whether or not anything is written.                  *)
C16_ControlCallsReturn ==
    \A t \in Tasks :
        (pc[t] \in {"close_lock", "resize_lock"}) ~> (pc[t] = "idle")

====
